---- MODULE Spec2Model ----
(***************************************************************************)
(* psx-vcd: a CUE sheet is parsed line by line, the BIN files it names are *)
(* combined into one stream, the indices of a multi-file sheet are         *)
(* recalculated for the combined stream, and a 1 MiB VCD header is encoded *)
(* from the sheet and the size of the combined data.                       *)
(*                                                                         *)
(* Option<T> is modelled as a sequence: <<>> is None and <<x>> is Some(x). *)
(* Result<T> is modelled as a record [ok, val] (Ok) or [ok, err] (Err).    *)
(***************************************************************************)
EXTENDS Integers, Sequences, FiniteSets, TLC

VARIABLES
    cue_text,            \* the CUE file being read: a fixed text, or any text
    nlines,              \* lines of the CUE file read so far
    pc,                  \* where the run stands
    cue_sheet,           \* CueSheet: [files |-> sequence of FileEntry]
    current_file,        \* parse's local: Option<FileEntry>
    current_track,       \* parse's local: Option<Track>
    declared,            \* history: the sheet as CueSheet::parse returned it
    directives,          \* history: the FILE, TRACK and INDEX lines read
    trimmed,             \* parse's loop: Option of the line just handled
    calc,                \* an Msf computation: its input and its result
    mode,                \* the subcommand running: "auto" or "convert"
    file_idx,            \* combine's position in cue_sheet.files
    total_bytes,         \* combine's byte count of the combined BIN
    rfile,               \* recalculate_msf_for_combined: the file reached
    rtrack,              \* recalculate_msf_for_combined: the track reached
    accumulated_sectors, \* recalculate_msf_for_combined's local
    gap_adjustment,      \* VcdConverter.gap_adjustment
    bin_size,            \* the size of the BIN given to convert_to_vcd
    header,              \* the header create_vcd_header returned
    combined_bin,        \* whether the combined BIN is on the disk
    output_cue,          \* the lines of the CUE run_combine_mode wrote
    err                  \* the error the run ended with, "" when none

vars == <<cue_text, nlines, pc, cue_sheet, current_file, current_track,
          declared, directives, trimmed, calc, mode, file_idx, total_bytes, rfile,
          rtrack, accumulated_sectors, gap_adjustment, bin_size, header,
          combined_bin, output_cue, err>>

-----------------------------------------------------------------------------
(* Bounds of the model. *)

\* A free CUE text has at most this many lines.
MaxLines == 4

\* The longest fixed CUE text has this many TRACK lines.
LongTracks == 101

\* The Msf computations take every position up to this one (a minute and a
\* second) and the positions around the ends of the ranges.
MaxSmallLba == 4575

\* The Msf computations take every shift of at most this many seconds.
MaxDelta == 3

-----------------------------------------------------------------------------
(* src/utils.rs: Msf *)

None == <<>>
Some(x) == <<x>>
Ok(v) == [ok |-> TRUE, val |-> v]
Err(e) == [ok |-> FALSE, err |-> e]

\* `x as u8`
as_u8(x) == x % 256

\* str::parse::<u8>() of a token: a token is a natural number (its decimal
\* digits) or -1 (a token that is not a number).
parse_u8(tok) == IF tok \in 0..255 THEN Ok(tok) ELSE Err("ParseIntError")

Msf_new(minutes, seconds, frames) ==
    [minutes |-> minutes, seconds |-> seconds, frames |-> frames]

\* Msf::from_str: the text is the sequence of its ':'-separated tokens.
Msf_from_str(s) ==
    IF Len(s) # 3 THEN Err("Invalid MSF format")
    ELSE IF \E i \in 1..3 : ~parse_u8(s[i]).ok THEN Err("ParseIntError")
    ELSE Ok(Msf_new(s[1], s[2], s[3]))

\* to_sectors counting 60 frames to the second.
to_sectors_60(msf) == ((msf.minutes * 60) + msf.seconds) * 60 + msf.frames

to_sectors(msf) == ((msf.minutes * 60) + msf.seconds) * 75 + msf.frames

\* from_sectors with the minutes capped at 255 rather than cast.
from_sectors_capped(sectors) ==
    LET frames == sectors % 75
        total_seconds == sectors \div 75
        seconds == total_seconds % 60
        minutes == total_seconds \div 60
    IN  Msf_new(IF minutes > 255 THEN 255 ELSE minutes, as_u8(seconds), as_u8(frames))

from_sectors(sectors) ==
    LET frames == sectors % 75
        total_seconds == sectors \div 75
        seconds == total_seconds % 60
        minutes == total_seconds \div 60
    IN  Msf_new(as_u8(minutes), as_u8(seconds), as_u8(frames))

\* add_seconds with no floor at 00:00:00.
add_seconds_unfloored(msf, seconds) ==
    LET total_sectors == to_sectors(msf) + (seconds * 75)
    IN  from_sectors(total_sectors)

add_seconds(msf, seconds) ==
    LET total_sectors == to_sectors(msf) + (seconds * 75)
    IN  IF total_sectors < 0 THEN Msf_new(0, 0, 0)
        ELSE from_sectors(total_sectors)

\* ((x / 10) << 4) | (x % 10) on a u8: the shift drops the bits past bit 7,
\* and the two operands of | share no bit.
bcd_u8(x) == as_u8((x \div 10) * 16) + (x % 10)

\* to_bcd in the order frames, seconds, minutes.
to_bcd_reversed(msf) == <<bcd_u8(msf.frames), bcd_u8(msf.seconds), bcd_u8(msf.minutes)>>

to_bcd(msf) == <<bcd_u8(msf.minutes), bcd_u8(msf.seconds), bcd_u8(msf.frames)>>

-----------------------------------------------------------------------------
(* src/cue.rs: the data model *)

TrackTypes == {"AUDIO", "MODE1/2048", "MODE1/2352", "MODE2/2336", "MODE2/2352"}

\* TrackType::from_str
TrackType_from_str(s) == IF s \in TrackTypes THEN Some(s) ELSE None

\* TrackType::sector_size
sector_size(track_type) ==
    CASE track_type = "AUDIO" -> 2352
      [] track_type = "MODE1/2048" -> 2048
      [] track_type = "MODE1/2352" -> 2352
      [] track_type = "MODE2/2336" -> 2336
      [] track_type = "MODE2/2352" -> 2352

\* Track::new
Track_new(number, track_type, index01_msf) ==
    [number |-> number, track_type |-> track_type,
     index00_msf |-> None, index01_msf |-> index01_msf]

\* Track::is_audio
is_audio(track) == track.track_type = "AUDIO"

\* FileEntry::new
FileEntry_new(filename, file_type) ==
    [filename |-> filename, file_type |-> file_type, tracks |-> <<>>,
     file_size |-> 0]

\* CueSheet::new
CueSheet_new == [files |-> <<>>]

\* Vec::push
push(v, x) == Append(v, x)

\* CueSheet::get_total_tracks
RECURSIVE SumTracks(_)
SumTracks(files) ==
    IF files = <<>> THEN 0
    ELSE Len(files[1].tracks) + SumTracks(Tail(files))

get_total_tracks(sheet) == SumTracks(sheet.files)

\* CueSheet::get_last_track
get_last_track(sheet) ==
    IF sheet.files = <<>> THEN None
    ELSE LET last == sheet.files[Len(sheet.files)]
         IN  IF last.tracks = <<>> THEN None
             ELSE Some(last.tracks[Len(last.tracks)])

\* The tracks of a sheet in disc order (the order of `for file .. for track`).
RECURSIVE AllTracks(_)
AllTracks(files) ==
    IF files = <<>> THEN <<>>
    ELSE files[1].tracks \o AllTracks(Tail(files))

-----------------------------------------------------------------------------
(* The CUE text.  A line is a record: its directive, and the tokens the    *)
(* handlers read.  nparts is the number of whitespace-separated tokens,    *)
(* quotes the number of '"' characters of a FILE line.                     *)

Line(kind, nparts, num, word, msf, quotes) ==
    [kind |-> kind, nparts |-> nparts, num |-> num, word |-> word,
     msf |-> msf, quotes |-> quotes]

FileLine(name) == Line("FILE", 3, name, "BINARY", <<>>, 2)
BadFileLine == Line("FILE", 2, 0, "BINARY", <<>>, 0)
TrackLine(num, type) == Line("TRACK", 3, num, type, <<>>, 0)
IndexLine(num, msf) == Line("INDEX", 3, num, "", msf, 0)
RemLine == Line("REM", 2, 0, "", <<>>, 0)

\* The TRACK and INDEX lines a free text is written with.
TrackNums == {1, 2}
LineTypes == {"MODE2/2352", "AUDIO"}
MsfTexts == {<<0, 0, 0>>, <<0, 2, 0>>}

\* The lines a free text may hold where the next FILE line names file `name`
\* (the k-th FILE line of a text names file k: every FILE is another file).
Lines(name) ==
    {FileLine(name), BadFileLine, RemLine}
    \cup {TrackLine(n, t) : n \in TrackNums, t \in LineTypes}
    \cup {TrackLine(2, "MODE3/2352")}
    \cup {IndexLine(0, <<0, 0, 0>>)}
    \cup {IndexLine(1, m) : m \in MsfTexts}
    \cup {IndexLine(2, <<0, 2, 0>>), IndexLine(1, <<1, 2>>)}

\* The fixed text of one FILE with n tracks: track 01 is the data track,
\* the others are audio tracks.
LongText(n) ==
    [i \in 1..(n + 1) |->
        IF i = 1 THEN FileLine(1)
        ELSE IF i = 2 THEN TrackLine(1, "MODE2/2352")
        ELSE TrackLine(2, "AUDIO")]

FreeText == [fixed |-> FALSE, lines |-> <<>>]
FixedText(lines) == [fixed |-> TRUE, lines |-> lines]

\* The fixed text of two FILEs: the first holds track 01 and k audio tracks,
\* the second one audio track, with INDEX 00 where pregap.
TwoFileText(k, pregap) ==
    <<FileLine(1), TrackLine(1, "MODE2/2352")>>
    \o [i \in 1..k |-> TrackLine(2, "AUDIO")]
    \o <<FileLine(2), TrackLine(2, "AUDIO")>>
    \o (IF pregap THEN <<IndexLine(0, <<0, 0, 0>>)>> ELSE <<>>)

\* The fixed text of one FILE with one track that declares a pregap:
\* INDEX 00 00:01:00 and INDEX 01 00:00:00.
SingleTrackText ==
    <<FileLine(1), TrackLine(1, "MODE2/2352"), IndexLine(0, <<0, 1, 0>>),
      IndexLine(1, <<0, 0, 0>>)>>

\* The fixed text of one FILE whose third track declares no INDEX 01 after a
\* second track at 00:02:00.
DescendingText ==
    <<FileLine(1), TrackLine(1, "MODE2/2352"),
      TrackLine(2, "AUDIO"), IndexLine(1, <<0, 2, 0>>),
      TrackLine(3, "AUDIO")>>

\* The fixed text of one FILE whose second and third tracks both start at
\* 00:02:00, in sectors of 2352 and of 2048 bytes.
MixedSizeText ==
    <<FileLine(1), TrackLine(1, "MODE2/2352"),
      TrackLine(2, "AUDIO"), IndexLine(1, <<0, 2, 0>>),
      TrackLine(3, "MODE1/2048"), IndexLine(1, <<0, 2, 0>>)>>

\* The fixed text of one FILE whose second and third tracks start at
\* 01:10:00 and 01:20:00 (5,250 and 6,000 sectors).
BeyondText ==
    <<FileLine(1), TrackLine(1, "MODE2/2352"),
      TrackLine(2, "AUDIO"), IndexLine(1, <<1, 10, 0>>),
      TrackLine(3, "AUDIO"), IndexLine(1, <<1, 20, 0>>)>>

\* The fixed text of two FILEs whose first holds a track 02 with a declared
\* pregap and whose second holds track 01.
OutOfOrderText ==
    <<FileLine(1), TrackLine(2, "AUDIO"), IndexLine(0, <<0, 0, 0>>),
      FileLine(2), TrackLine(1, "MODE2/2352")>>

\* The most audio tracks the first FILE of a two-file fixed text holds.
MaxExtraTracks == 2

CueTexts ==
    {FreeText}
    \cup {FixedText(LongText(n)) : n \in (LongTracks - 2)..LongTracks}
    \cup {FixedText(TwoFileText(k, p)) : k \in 0..MaxExtraTracks, p \in BOOLEAN}
    \cup {FixedText(SingleTrackText)}
    \cup {FixedText(DescendingText), FixedText(MixedSizeText),
          FixedText(BeyondText), FixedText(OutOfOrderText)}

-----------------------------------------------------------------------------
(* src/cue.rs: CueSheet::parse.  The parser state is the triple            *)
(* <<cue_sheet, current_file, current_track>>.                             *)

PState(sheet, file, track) == [sheet |-> sheet, file |-> file, track |-> track]

\* CueSheet::handle_file_directive
handle_file_directive(st, line) ==
    LET \* Save previous file if exists
        saved ==
            IF st.file # None
            THEN LET file == st.file[1]
                     tracks == IF st.track # None
                               THEN push(file.tracks, st.track[1])
                               ELSE file.tracks
                 IN  PState([files |-> push(st.sheet.files,
                                            [file EXCEPT !.tracks = tracks])],
                            None,
                            IF st.track # None THEN None ELSE st.track)
            ELSE st
    IN  IF line.quotes < 1 THEN Err("Invalid FILE line")
        ELSE IF line.quotes < 2 THEN Err("Invalid FILE line")
        ELSE Ok([saved EXCEPT !.file = Some(FileEntry_new(line.num, line.word))])

\* CueSheet::handle_track_directive
handle_track_directive(st, line) ==
    LET \* Save previous track if exists
        saved ==
            IF st.file # None /\ st.track # None
            THEN [st EXCEPT
                    !.file = Some([st.file[1] EXCEPT
                                     !.tracks = push(st.file[1].tracks, st.track[1])]),
                    !.track = None]
            ELSE st
        track_num == parse_u8(line.num)
        track_type == TrackType_from_str(line.word)
    IN  IF line.nparts < 3 THEN Err("Invalid TRACK line")
        ELSE IF ~track_num.ok THEN Err("Invalid track number")
        ELSE IF track_type = None THEN Err("Unknown track type")
        ELSE Ok([saved EXCEPT
                    !.track = Some(Track_new(track_num.val, track_type[1],
                                             Msf_new(0, 0, 0)))])

\* handle_index_directive taking every index number but 0 for INDEX 01.
handle_index_directive_any(st, line) ==
    LET index_num == parse_u8(line.num)
        msf == Msf_from_str(line.msf)
    IN  IF line.nparts < 3 THEN Err("Invalid INDEX line")
        ELSE IF ~index_num.ok THEN Err("Invalid index number")
        ELSE IF ~msf.ok THEN Err("Invalid MSF")
        ELSE IF st.track # None
        THEN CASE index_num.val = 0 ->
                    Ok([st EXCEPT !.track = Some([st.track[1] EXCEPT
                                                    !.index00_msf = Some(msf.val)])])
               [] OTHER ->
                    Ok([st EXCEPT !.track = Some([st.track[1] EXCEPT
                                                    !.index01_msf = msf.val])])
        ELSE Ok(st)

\* CueSheet::handle_index_directive
handle_index_directive(st, line) ==
    LET index_num == parse_u8(line.num)
        msf == Msf_from_str(line.msf)
    IN  IF line.nparts < 3 THEN Err("Invalid INDEX line")
        ELSE IF ~index_num.ok THEN Err("Invalid index number")
        ELSE IF ~msf.ok THEN Err("Invalid MSF")
        ELSE IF st.track # None
        THEN CASE index_num.val = 0 ->
                    Ok([st EXCEPT !.track = Some([st.track[1] EXCEPT
                                                    !.index00_msf = Some(msf.val)])])
               [] index_num.val = 1 ->
                    Ok([st EXCEPT !.track = Some([st.track[1] EXCEPT
                                                    !.index01_msf = msf.val])])
               [] OTHER -> Ok(st)
        ELSE Ok(st)

\* The body of parse's `for line in reader.lines()` loop.
parse_line(st, line) ==
    IF line.kind = "REM" THEN Ok(st)
    ELSE IF line.kind = "FILE" THEN handle_file_directive(st, line)
    ELSE IF line.kind = "TRACK" THEN handle_track_directive(st, line)
    ELSE IF line.kind = "INDEX" THEN handle_index_directive(st, line)
    ELSE Ok(st)

\* CueSheet::validate
validate(sheet) ==
    IF sheet.files = <<>> THEN Err("CUE file contains no FILE entries")
    ELSE IF sheet.files[1].tracks # <<>>
            /\ to_sectors(sheet.files[1].tracks[1].index01_msf) # 0
    THEN Err("First track INDEX 01 must be 00:00:00")
    ELSE Ok(sheet)

\* The end of parse: save last file and track, then validate.
parse_end(st) ==
    LET sheet ==
            IF st.file # None
            THEN LET file == st.file[1]
                     tracks == IF st.track # None
                               THEN push(file.tracks, st.track[1])
                               ELSE file.tracks
                 IN  [files |-> push(st.sheet.files,
                                     [file EXCEPT !.tracks = tracks])]
            ELSE st.sheet
    IN  validate(sheet)

-----------------------------------------------------------------------------
(* The directives of the text, as parse's loop meets them: the files in    *)
(* the order of the FILE lines, each with the TRACK lines read while it    *)
(* was the open FILE, whether a TRACK line came with no FILE open, and     *)
(* which of INDEX 00 and INDEX 01 have been read since the last TRACK line.*)

no_directives ==
    [files |-> <<>>, orphan |-> FALSE, in_track |-> FALSE, since_track |-> <<>>]

\* A line parse's loop has handled, added to the directives read.
directive_read(d, next) ==
    IF next.kind = "FILE"
    THEN [d EXCEPT !.files = Append(d.files, <<>>), !.in_track = FALSE]
    ELSE IF next.kind = "TRACK"
    THEN LET opened == [d EXCEPT !.since_track =
                           <<[index00 |-> FALSE, index01 |-> FALSE]>>]
         IN  IF d.files = <<>>
             THEN [opened EXCEPT !.orphan = TRUE, !.in_track = FALSE]
             ELSE [opened EXCEPT
                     !.files[Len(d.files)] =
                         Append(d.files[Len(d.files)],
                                [number |-> next.num, track_type |-> next.word,
                                 index00 |-> FALSE, index01 |-> FALSE]),
                     !.in_track = TRUE]
    ELSE IF next.kind = "INDEX" /\ next.num \in {0, 1}
    THEN LET f == Len(d.files)
             t == Len(d.files[f])
             since == IF d.since_track = <<>> THEN d
                      ELSE IF next.num = 0
                      THEN [d EXCEPT !.since_track[1].index00 = TRUE]
                      ELSE [d EXCEPT !.since_track[1].index01 = TRUE]
         IN  IF ~d.in_track THEN since
             ELSE IF next.num = 0
             THEN [since EXCEPT !.files[f][t].index00 = TRUE]
             ELSE [since EXCEPT !.files[f][t].index01 = TRUE]
    ELSE d

\* No Msf computation is under way.
no_calc == [op |-> "", lba |-> 0, msf |-> <<>>, delta |-> 0, out |-> <<>>]

-----------------------------------------------------------------------------
(* The run. *)

Init ==
    /\ cue_text \in CueTexts
    /\ nlines = 0
    /\ pc = "parse"
    /\ cue_sheet = CueSheet_new
    /\ current_file = None
    /\ current_track = None
    /\ declared = CueSheet_new
    /\ directives = no_directives
    /\ trimmed = None
    /\ calc = no_calc
    /\ mode = ""
    /\ file_idx = 0
    /\ total_bytes = 0
    /\ rfile = 0
    /\ rtrack = 0
    /\ accumulated_sectors = 0
    /\ gap_adjustment = 0
    /\ bin_size = 0
    /\ header = <<>>
    /\ combined_bin = FALSE
    /\ output_cue = <<>>
    /\ err = ""

\* The name the next FILE line of a free text gives.
NextFileName == Len(cue_sheet.files) + Len(current_file) + 1

\* The lines the reader may yield next.
NextLines ==
    IF cue_text.fixed
    THEN IF nlines < Len(cue_text.lines) THEN {cue_text.lines[nlines + 1]} ELSE {}
    ELSE IF nlines < MaxLines THEN Lines(NextFileName) ELSE {}

AtEndOfText ==
    IF cue_text.fixed THEN nlines = Len(cue_text.lines) ELSE TRUE

Fail(e) ==
    /\ pc' = "failed"
    /\ err' = e

\* One turn of parse's loop: a line is read and handled.
ReadLine ==
    /\ pc = "parse"
    /\ \E next \in NextLines :
          /\ LET r == parse_line(PState(cue_sheet, current_file, current_track), next)
             IN  IF r.ok
              THEN /\ cue_sheet' = r.val.sheet
                   /\ current_file' = r.val.file
                   /\ current_track' = r.val.track
                   /\ nlines' = nlines + 1
                   /\ directives' = directive_read(directives, next)
                   /\ UNCHANGED <<pc, err>>
              ELSE /\ Fail(r.err)
                   /\ UNCHANGED <<cue_sheet, current_file, current_track, nlines,
                                  directives>>
          /\ trimmed' = Some(next)
    /\ UNCHANGED <<combined_bin, output_cue, calc, cue_text, declared, mode, file_idx, total_bytes, rfile, rtrack,
                   accumulated_sectors, gap_adjustment, bin_size, header>>

\* The end of the text: parse flushes, validates and returns.
EndOfText ==
    /\ pc = "parse"
    /\ AtEndOfText
    /\ LET r == parse_end(PState(cue_sheet, current_file, current_track))
       IN  IF r.ok
           THEN /\ cue_sheet' = r.val
                /\ declared' = r.val
                /\ pc' = "parsed"
                /\ UNCHANGED err
           ELSE /\ Fail(r.err)
                /\ UNCHANGED <<cue_sheet, declared>>
    /\ current_file' = None
    /\ current_track' = None
    /\ trimmed' = None
    /\ UNCHANGED <<combined_bin, output_cue, directives, calc, cue_text, nlines, mode, file_idx, total_bytes, rfile, rtrack,
                   accumulated_sectors, gap_adjustment, bin_size, header>>

-----------------------------------------------------------------------------
(* src/cue.rs: load_file_sizes and validate_mode2 *)

\* The sizes, in bytes, a BIN file of the model may have: 5,000 sectors of
\* 2352 bytes and half a sector more, and 576,000 sectors (128 minutes).
FileSizes == {11761176, 1354752000}

\* The BIN files of a sheet hold at most this many bytes together.
MaxImageBytes == 2000000000

\* Whether the sizes sizes[i..] are at most `room` bytes together.
RECURSIVE FitsIn(_, _, _)
FitsIn(sizes, i, room) ==
    IF i > Len(sizes) THEN TRUE
    ELSE IF sizes[i] > room THEN FALSE
    ELSE FitsIn(sizes, i + 1, room - sizes[i])

\* The sizes the model gives the files of a sheet: the byte counts of the run
\* stay at or below MaxImageBytes (a single file is read once per track).
InRange(sheet, sizes) ==
    /\ FitsIn(sizes, 1, MaxImageBytes)
    /\ Len(sizes) = 1 =>
          sizes[1] <= MaxImageBytes \div (Len(sheet.files[1].tracks) + 1)

\* CueSheet::load_file_sizes, where sizes[i] is the length the filesystem
\* reports for the i-th file.
load_file_sizes(sheet, sizes) ==
    [files |-> [i \in 1..Len(sheet.files) |->
                   [sheet.files[i] EXCEPT !.file_size = sizes[i]]]]

\* CueSheet::validate_mode2
validate_mode2(sheet) ==
    IF \E i \in 1..Len(sheet.files) : \E j \in 1..Len(sheet.files[i].tracks) :
          /\ sheet.files[i].tracks[j].number = 1
          /\ sheet.files[i].tracks[j].track_type # "MODE2/2352"
    THEN Err("First track must be MODE2/2352")
    ELSE Ok(sheet)

-----------------------------------------------------------------------------
(* src/combiner.rs *)

\* One turn of process_singlefile_tracks' loop, for the track at idx.
\* `end_bytes - start_bytes` is a u64 subtraction: where it underflows, a
\* build with overflow checks panics and a build without wraps to a length
\* past every file size, so the copy runs to the end of the file.
singlefile_turn(tracks, idx, file_size) ==
    LET track == tracks[idx]
        start_bytes == to_sectors(track.index01_msf)
                          * sector_size(track.track_type)
        end_bytes ==
            IF idx + 1 <= Len(tracks)
            THEN to_sectors(tracks[idx + 1].index01_msf)
                    * sector_size(tracks[idx + 1].track_type)
            ELSE file_size
        underflow == end_bytes < start_bytes
        \* what is left of the file after the seek to start_bytes
        in_file == IF file_size > start_bytes THEN file_size - start_bytes
                   ELSE 0
        copied == IF underflow THEN in_file
                  ELSE IF end_bytes - start_bytes < in_file
                       THEN end_bytes - start_bytes ELSE in_file
    IN  [underflow |-> underflow, copied |-> copied]

\* The bytes the turns lo..hi of the loop copy together (`total_bytes +=`),
\* summed by halves.
RECURSIVE singlefile_bytes(_, _, _, _)
singlefile_bytes(tracks, lo, hi, file_size) ==
    IF lo > hi THEN 0
    ELSE IF lo = hi THEN singlefile_turn(tracks, lo, file_size).copied
    ELSE LET mid == (lo + hi) \div 2
         IN  singlefile_bytes(tracks, lo, mid, file_size)
                + singlefile_bytes(tracks, mid + 1, hi, file_size)

\* BinCombiner::process_singlefile_tracks
process_singlefile_tracks(file_obj, overflow_checks) ==
    LET tracks == file_obj.tracks
        underflow == \E idx \in 1..Len(tracks) :
                        singlefile_turn(tracks, idx, file_obj.file_size).underflow
    IN  IF underflow /\ overflow_checks
        THEN [panicked |-> TRUE, bytes |-> 0]
        ELSE [panicked |-> FALSE,
              bytes |-> singlefile_bytes(tracks, 1, Len(tracks), file_obj.file_size)]

\* BinCombiner::process_multifile_track: the whole file is copied.
process_multifile_track(file_obj) == file_obj.file_size

\* The test before the recalculation taken on the tracks: more than one
\* track.
needs_recalculation_tracks(sheet) == get_total_tracks(sheet) > 1

\* combine's test before recalculate_msf_for_combined:
\* `cue_sheet.files.len() > 1`.
needs_recalculation(sheet) == Len(sheet.files) > 1

\* handle_single_file setting INDEX 01 only: INDEX 00 stays as declared.
handle_single_file_index01(sheet) ==
    IF Len(sheet.files) >= 1 /\ Len(sheet.files[1].tracks) >= 1
    THEN [sheet EXCEPT !.files[1].tracks[1] =
            [@ EXCEPT !.index01_msf = from_sectors(150)]]
    ELSE sheet

\* BinCombiner::handle_single_file: the sheet after the track fix.
handle_single_file(sheet) ==
    IF Len(sheet.files) >= 1 /\ Len(sheet.files[1].tracks) >= 1
    THEN [sheet EXCEPT !.files[1].tracks[1] =
            [@ EXCEPT !.index00_msf = Some(from_sectors(0)),
                      !.index01_msf = from_sectors(150)]]
    ELSE sheet

-----------------------------------------------------------------------------
(* src/cue.rs: recalculate_msf_for_combined, one track *)

\* `(file.file_size / file.tracks[0].sector_size() as u64) as u32`; the sizes
\* of the model are below 2^31, where the cast changes nothing.
physical_sectors(file) ==
    file.file_size \div sector_size(file.tracks[1].track_type)

\* The body with the pregap added once where INDEX 00 is declared:
\* index00 at accumulated + 150 and index01 150 after it.
recalculate_track_once(track, accumulated) ==
    IF track.number = 1
    THEN [track EXCEPT !.index00_msf = Some(from_sectors(0)),
                       !.index01_msf = from_sectors(150)]
    ELSE IF track.index00_msf # None
    THEN LET index00_sector == accumulated + 150
             index01_sector == index00_sector + 150
         IN  [track EXCEPT !.index00_msf = Some(from_sectors(index00_sector)),
                           !.index01_msf = from_sectors(index01_sector)]
    ELSE LET adjusted_sector == accumulated + 150
         IN  [track EXCEPT !.index00_msf = Some(from_sectors(adjusted_sector)),
                           !.index01_msf = from_sectors(adjusted_sector)]

\* The body giving a track with no INDEX 00 a pregap of its own: index01
\* 150 sectors after index00.
recalculate_track_gap(track, accumulated) ==
    IF track.number = 1
    THEN [track EXCEPT !.index00_msf = Some(from_sectors(0)),
                       !.index01_msf = from_sectors(150)]
    ELSE IF track.index00_msf # None
    THEN LET index00_sector == accumulated + 150 + 150
             index01_sector == index00_sector + 150
         IN  [track EXCEPT !.index00_msf = Some(from_sectors(index00_sector)),
                           !.index01_msf = from_sectors(index01_sector)]
    ELSE LET adjusted_sector == accumulated + 150
         IN  [track EXCEPT !.index00_msf = Some(from_sectors(adjusted_sector)),
                           !.index01_msf = from_sectors(adjusted_sector + 150)]

\* The body leaving track 1 to the general rule: no forced pair.
recalculate_track_general(track, accumulated) ==
    IF track.index00_msf # None
    THEN LET index00_sector == accumulated + 150 + 150
             index01_sector == index00_sector + 150
         IN  [track EXCEPT !.index00_msf = Some(from_sectors(index00_sector)),
                           !.index01_msf = from_sectors(index01_sector)]
    ELSE LET adjusted_sector == accumulated + 150
         IN  [track EXCEPT !.index00_msf = Some(from_sectors(adjusted_sector)),
                           !.index01_msf = from_sectors(adjusted_sector)]

\* The body of `for track in &mut file.tracks`: the track as rewritten.
recalculate_track(track, accumulated) ==
    IF track.number = 1
    THEN [track EXCEPT !.index00_msf = Some(from_sectors(0)),
                       !.index01_msf = from_sectors(150)]
    ELSE IF track.index00_msf # None
    THEN LET index00_sector == accumulated + 150 + 150
             index01_sector == index00_sector + 150
         IN  [track EXCEPT !.index00_msf = Some(from_sectors(index00_sector)),
                           !.index01_msf = from_sectors(index01_sector)]
    ELSE LET adjusted_sector == accumulated + 150
         IN  [track EXCEPT !.index00_msf = Some(from_sectors(adjusted_sector)),
                           !.index01_msf = from_sectors(adjusted_sector)]

\* `accumulated_sectors += physical_sectors`, in both branches of the body.
recalculate_accumulate(accumulated, physical) == accumulated + physical

-----------------------------------------------------------------------------
(* src/vcd.rs *)

SECTOR_SIZE == 2352
VCD_HEADER_SIZE == 1048576
PREGAP_SECTORS == 150

\* VcdConverter::new
VcdConverter_new(gap_plus, gap_minus) ==
    IF gap_plus THEN 2 ELSE IF gap_minus THEN -2 ELSE 0

\* The header is `vec![0u8; VCD_HEADER_SIZE]`: its length, and the bytes
\* written so far (every other byte is the 0 it was created with).  A write
\* past the end panics.
header_new == [len |-> VCD_HEADER_SIZE, bytes |-> <<>>, panicked |-> FALSE]

\* header[offset] = value
put(h, offset, value) ==
    IF h.panicked \/ offset >= h.len THEN [h EXCEPT !.panicked = TRUE]
    ELSE [h EXCEPT !.bytes = (offset :> value) @@ h.bytes]

\* header[offset..offset + Len(values)].copy_from_slice(values)
RECURSIVE copy_from_slice(_, _, _)
copy_from_slice(h, offset, values) ==
    IF values = <<>> THEN h
    ELSE IF offset + Len(values) > h.len THEN [h EXCEPT !.panicked = TRUE]
    ELSE copy_from_slice(put(h, offset, values[1]), offset + 1, Tail(values))

\* The byte of a header at an offset.
byte_at(h, offset) == IF offset \in DOMAIN h.bytes THEN h.bytes[offset] ELSE 0

\* `x as u32`; the values of the model are below 2^31.
as_u32(x) == x

\* u32::to_le_bytes
to_le_bytes(x) ==
    <<x % 256, (x \div 256) % 256, (x \div 65536) % 256, (x \div 16777216) % 256>>

\* Descriptor A0 with the first track number one byte early, at 6.
build_descriptor_a0_shifted(h) == put(put(put(put(h, 0, 65), 2, 160), 6, 1), 8, 32)

\* VcdConverter::build_descriptor_a0
build_descriptor_a0(h) == put(put(put(put(h, 0, 65), 2, 160), 7, 1), 8, 32)

\* VcdConverter::build_descriptor_a1
build_descriptor_a1(h, sheet) ==
    LET last_track == get_last_track(sheet)
        track_count == get_total_tracks(sheet)
        content_type == IF last_track # None /\ is_audio(last_track[1])
                        THEN 1 ELSE 65
    IN  put(put(put(put(h, 10, content_type), 12, 161),
                17, as_u8(((track_count \div 10) * 16) + (track_count % 10))),
            20, content_type)

\* Descriptor A2 with the lead-out at total_sectors, the pregap left out.
build_descriptor_a2_no_pregap(h, total_sectors) ==
    LET leadout_sectors_for_msf == total_sectors
        leadout_msf == from_sectors(leadout_sectors_for_msf)
        leadout_bcd == to_bcd(leadout_msf)
    IN  put(put(put(put(h, 22, 162), 27, leadout_bcd[1]), 28, leadout_bcd[2]),
            29, leadout_bcd[3])

\* VcdConverter::build_descriptor_a2
build_descriptor_a2(h, total_sectors) ==
    LET leadout_sectors_for_msf == total_sectors + 150
        leadout_msf == from_sectors(leadout_sectors_for_msf)
        leadout_bcd == to_bcd(leadout_msf)
    IN  put(put(put(put(h, 22, 162), 27, leadout_bcd[1]), 28, leadout_bcd[2]),
            29, leadout_bcd[3])

\* The loop body with index01 one byte early, at offset + 6.
write_track_entry_shifted(h, offset, track, gap) ==
    LET h0 == put(h, offset, IF is_audio(track) THEN 1 ELSE 65)
        h2 == put(h0, offset + 2, bcd_u8(track.number))
        index00_msf == IF track.index00_msf # None THEN track.index00_msf[1]
                       ELSE track.index01_msf
        adjusted_index00 == IF track.number > 1 /\ gap # 0
                            THEN add_seconds(index00_msf, gap)
                            ELSE index00_msf
        h3 == copy_from_slice(h2, offset + 3, to_bcd(adjusted_index00))
        adjusted_index01 == IF track.number > 1 /\ gap # 0
                            THEN add_seconds(track.index01_msf, gap)
                            ELSE track.index01_msf
    IN  copy_from_slice(h3, offset + 6, to_bcd(adjusted_index01))

\* The loop body with the gap adjustment applied to track 1 as well.
write_track_entry_every(h, offset, track, gap) ==
    LET h0 == put(h, offset, IF is_audio(track) THEN 1 ELSE 65)
        h2 == put(h0, offset + 2, bcd_u8(track.number))
        index00_msf == IF track.index00_msf # None THEN track.index00_msf[1]
                       ELSE track.index01_msf
        adjusted_index00 == IF track.number >= 1 /\ gap # 0
                            THEN add_seconds(index00_msf, gap)
                            ELSE index00_msf
        h3 == copy_from_slice(h2, offset + 3, to_bcd(adjusted_index00))
        adjusted_index01 == IF track.number >= 1 /\ gap # 0
                            THEN add_seconds(track.index01_msf, gap)
                            ELSE track.index01_msf
    IN  copy_from_slice(h3, offset + 7, to_bcd(adjusted_index01))

\* The body of write_track_entries' loop for one track, written at offset.
write_track_entry(h, offset, track, gap) ==
    LET h0 == put(h, offset, IF is_audio(track) THEN 1 ELSE 65)
        h2 == put(h0, offset + 2, bcd_u8(track.number))
        index00_msf == IF track.index00_msf # None THEN track.index00_msf[1]
                       ELSE track.index01_msf
        adjusted_index00 == IF track.number > 1 /\ gap # 0
                            THEN add_seconds(index00_msf, gap)
                            ELSE index00_msf
        h3 == copy_from_slice(h2, offset + 3, to_bcd(adjusted_index00))
        adjusted_index01 == IF track.number > 1 /\ gap # 0
                            THEN add_seconds(track.index01_msf, gap)
                            ELSE track.index01_msf
    IN  copy_from_slice(h3, offset + 7, to_bcd(adjusted_index01))

\* The turns lo..hi of write_track_entries' loop in their order, taken by
\* halves: the record of the i-th track (i from 1) is at 30 + 10 * (i - 1).
RECURSIVE write_tracks_from(_, _, _, _, _)
write_tracks_from(h, tracks, lo, hi, gap) ==
    IF h.panicked \/ lo > hi THEN h
    ELSE IF lo = hi
    THEN write_track_entry(h, 30 + 10 * (lo - 1), tracks[lo], gap)
    ELSE LET mid == (lo + hi) \div 2
         IN  write_tracks_from(write_tracks_from(h, tracks, lo, mid, gap),
                               tracks, mid + 1, hi, gap)

\* VcdConverter::write_track_entries
write_track_entries(h, sheet, gap) ==
    LET tracks == AllTracks(sheet.files)
    IN  write_tracks_from(h, tracks, 1, Len(tracks), gap)

\* The sector counts create_vcd_header writes at 1032 and 1036.
write_sector_counts(h, total_sectors) ==
    LET sector_bytes == to_le_bytes(total_sectors)
    IN  copy_from_slice(copy_from_slice(h, 1032, sector_bytes), 1036, sector_bytes)

\* The signature create_vcd_header writes at 1024.
write_signature(h) == put(put(put(put(h, 1024, 107), 1025, 72), 1026, 110), 1027, 32)

\* total_sectors of create_vcd_header
header_total_sectors(size) ==
    LET bin_sectors == as_u32(size \div SECTOR_SIZE)
        pregap_count == 0
        postgap_count == 0
    IN  bin_sectors + (pregap_count * PREGAP_SECTORS) + (postgap_count * PREGAP_SECTORS)

\* create_vcd_header with the sector counts written before the track
\* entries.
create_vcd_header_counts_first(size, sheet, gap) ==
    LET total_sectors == header_total_sectors(size)
        a0 == build_descriptor_a0(header_new)
        a1 == build_descriptor_a1(a0, sheet)
        a2 == build_descriptor_a2(a1, total_sectors)
        counts == write_sector_counts(a2, total_sectors)
        entries == write_track_entries(counts, sheet, gap)
    IN  write_signature(entries)

\* VcdConverter::create_vcd_header
create_vcd_header(size, sheet, gap) ==
    LET total_sectors == header_total_sectors(size)
        a0 == build_descriptor_a0(header_new)
        a1 == build_descriptor_a1(a0, sheet)
        a2 == build_descriptor_a2(a1, total_sectors)
        entries == write_track_entries(a2, sheet, gap)
        counts == write_sector_counts(entries, total_sectors)
    IN  write_signature(counts)

-----------------------------------------------------------------------------
(* src/main.rs: the run after parse *)

\* The sizes, in bytes, of the BIN a convert run is given: 1,000 sectors,
\* and 719,850 sectors and 800 bytes (its lead-out is at 160:00:00).
BinSizes == {2352000, 1693088000}

Files == cue_sheet.files

\* cue_sheet.load_file_sizes(cue_dir)?: every BIN is there.
LoadFileSizes ==
    /\ pc = "parsed"
    /\ \E sizes \in [1..Len(Files) -> FileSizes] :
          /\ InRange(cue_sheet, sizes)
          /\ cue_sheet' = load_file_sizes(cue_sheet, sizes)
    /\ pc' = "sized"
    /\ UNCHANGED <<trimmed, combined_bin, output_cue, directives, calc, cue_text, nlines, current_file, current_track, declared, mode,
                   file_idx, total_bytes, rfile, rtrack, accumulated_sectors,
                   gap_adjustment, bin_size, header, err>>

\* cue_sheet.load_file_sizes(cue_dir)?: a BIN is missing.
LoadFileSizesFail ==
    /\ pc = "parsed"
    /\ Fail("Failed to get size of")
    /\ UNCHANGED <<trimmed, combined_bin, output_cue, directives, calc, cue_text, nlines, cue_sheet, current_file, current_track,
                   declared, mode, file_idx, total_bytes, rfile, rtrack,
                   accumulated_sectors, gap_adjustment, bin_size, header>>

\* cue_sheet.validate_mode2()?
ValidateMode2 ==
    /\ pc = "sized"
    /\ IF validate_mode2(cue_sheet).ok
       THEN pc' = "ready" /\ UNCHANGED err
       ELSE Fail(validate_mode2(cue_sheet).err)
    /\ UNCHANGED <<trimmed, combined_bin, output_cue, directives, calc, cue_text, nlines, cue_sheet, current_file, current_track,
                   declared, mode, file_idx, total_bytes, rfile, rtrack,
                   accumulated_sectors, gap_adjustment, bin_size, header>>

\* The subcommands that call BinCombiner::combine.
CombineModes == {"auto", "combine"}

\* run_auto_mode, run_combine_mode: BinCombiner::combine, single file with a
\* single track.  std::fs::copy leaves the combined BIN on the disk.
HandleSingleFile ==
    /\ pc = "ready"
    /\ Len(Files) = 1 /\ get_total_tracks(cue_sheet) = 1
    /\ mode' \in CombineModes
    /\ cue_sheet' = handle_single_file(cue_sheet)
    /\ total_bytes' = Files[1].file_size
    /\ combined_bin' = TRUE
    /\ pc' = "combined"
    /\ UNCHANGED <<trimmed, output_cue, directives, calc, cue_text, nlines, current_file, current_track, declared,
                   file_idx, rfile, rtrack, accumulated_sectors, gap_adjustment,
                   bin_size, header, err>>

\* run_auto_mode, run_combine_mode: BinCombiner::combine, up to the loop over
\* the files.  File::create leaves the combined BIN on the disk.
CombineCreate ==
    /\ pc = "ready"
    /\ ~(Len(Files) = 1 /\ get_total_tracks(cue_sheet) = 1)
    /\ mode' \in CombineModes
    /\ total_bytes' = 0
    /\ file_idx' = 1
    /\ combined_bin' = TRUE
    /\ pc' = "copy"
    /\ UNCHANGED <<trimmed, output_cue, directives, calc, cue_text, nlines, cue_sheet, current_file, current_track,
                   declared, rfile, rtrack, accumulated_sectors, gap_adjustment,
                   bin_size, header, err>>

\* combine: one turn of `for file_obj in &cue_sheet.files`, multi-file case.
CopyMultiFile ==
    /\ pc = "copy"
    /\ file_idx <= Len(Files)
    /\ Len(Files) > 1
    /\ total_bytes' = total_bytes + process_multifile_track(Files[file_idx])
    /\ file_idx' = file_idx + 1
    /\ UNCHANGED <<trimmed, combined_bin, output_cue, directives, calc, cue_text, nlines, pc, cue_sheet, current_file, current_track,
                   declared, mode, rfile, rtrack, accumulated_sectors,
                   gap_adjustment, bin_size, header, err>>

\* combine: one turn of `for file_obj in &cue_sheet.files`, single-file case.
CopySingleFile ==
    /\ pc = "copy"
    /\ file_idx <= Len(Files)
    /\ ~(Len(Files) > 1)
    /\ \E overflow_checks \in BOOLEAN :
          LET r == process_singlefile_tracks(Files[file_idx], overflow_checks)
          IN  IF r.panicked
              THEN /\ pc' = "panicked"
                   /\ err' = "attempt to subtract with overflow"
                   /\ UNCHANGED <<total_bytes, file_idx>>
              ELSE /\ total_bytes' = total_bytes + r.bytes
                   /\ file_idx' = file_idx + 1
                   /\ UNCHANGED <<pc, err>>
    /\ UNCHANGED <<trimmed, combined_bin, output_cue, directives, calc, cue_text, nlines, cue_sheet, current_file, current_track,
                   declared, mode, rfile, rtrack, accumulated_sectors,
                   gap_adjustment, bin_size, header>>

\* combine: output_file.flush()?, and the return of a single-file sheet or
\* the entry into recalculate_msf_for_combined of a multi-file one.
CombineFlush ==
    /\ pc = "copy"
    /\ file_idx > Len(Files)
    /\ IF needs_recalculation(cue_sheet)
       THEN /\ pc' = "recalc"
            /\ accumulated_sectors' = 0
            /\ rfile' = 1
            /\ rtrack' = 1
       ELSE /\ pc' = "combined"
            /\ UNCHANGED <<accumulated_sectors, rfile, rtrack>>
    /\ UNCHANGED <<trimmed, combined_bin, output_cue, directives, calc, cue_text, nlines, cue_sheet, current_file, current_track,
                   declared, mode, file_idx, total_bytes, gap_adjustment,
                   bin_size, header, err>>

\* recalculate_msf_for_combined: `file.tracks[0]` of a file without tracks.
RecalcPanic ==
    /\ pc = "recalc"
    /\ rfile <= Len(Files)
    /\ Files[rfile].tracks = <<>>
    /\ pc' = "panicked"
    /\ err' = "index out of bounds"
    /\ UNCHANGED <<trimmed, combined_bin, output_cue, directives, calc, cue_text, nlines, cue_sheet, current_file, current_track,
                   declared, mode, file_idx, total_bytes, rfile, rtrack,
                   accumulated_sectors, gap_adjustment, bin_size, header>>

\* recalculate_msf_for_combined: one turn of the loop over the tracks.  After
\* the last track of the last file the function, and combine, return.
RecalcTrack ==
    /\ pc = "recalc"
    /\ rfile <= Len(Files)
    /\ rtrack <= Len(Files[rfile].tracks)
    /\ cue_sheet' = [cue_sheet EXCEPT !.files[rfile].tracks[rtrack] =
                        recalculate_track(@, accumulated_sectors)]
    /\ accumulated_sectors' =
          recalculate_accumulate(accumulated_sectors, physical_sectors(Files[rfile]))
    /\ IF rtrack < Len(Files[rfile].tracks)
       THEN /\ rtrack' = rtrack + 1
            /\ UNCHANGED <<rfile, pc>>
       ELSE /\ rfile' = rfile + 1
            /\ rtrack' = 1
            /\ pc' = IF rfile < Len(Files) THEN "recalc" ELSE "combined"
    /\ UNCHANGED <<trimmed, combined_bin, output_cue, directives, calc, cue_text, nlines, current_file, current_track, declared, mode,
                   file_idx, total_bytes, gap_adjustment, bin_size, header, err>>

\* The name run_combine_mode writes in the FILE line: the combined BIN.
CombinedName == 0

\* Display of an Msf, "{:02}:{:02}:{:02}": the text whose ':'-separated
\* tokens are the three numbers.
Msf_fmt(msf) == <<msf.minutes, msf.seconds, msf.frames>>

\* The lines run_combine_mode writes for one track: `TRACK {:02} {}`, then
\* `INDEX 00 {}` where index00 is Some, then `INDEX 01 {}`.
write_track(track) ==
    <<TrackLine(track.number, track.track_type)>>
    \o (IF track.index00_msf # None
        THEN <<IndexLine(0, Msf_fmt(track.index00_msf[1]))>> ELSE <<>>)
    \o <<IndexLine(1, Msf_fmt(track.index01_msf))>>

\* The lines of the tracks lo..hi in their order, taken by halves.
RECURSIVE write_tracks(_, _, _)
write_tracks(tracks, lo, hi) ==
    IF lo > hi THEN <<>>
    ELSE IF lo = hi THEN write_track(tracks[lo])
    ELSE LET mid == (lo + hi) \div 2
         IN  write_tracks(tracks, lo, mid) \o write_tracks(tracks, mid + 1, hi)

\* The CUE file run_combine_mode generates: one FILE line, then every track
\* of every file of the sheet.
write_cue(sheet) ==
    LET tracks == AllTracks(sheet.files)
    IN  <<FileLine(CombinedName)>> \o write_tracks(tracks, 1, Len(tracks))

\* parse's loop over the lines lo..hi of a text, taken by halves: the parser
\* state after them, or the error of the first line that fails.
RECURSIVE parse_lines(_, _, _, _)
parse_lines(r, lines, lo, hi) ==
    IF ~r.ok THEN r
    ELSE IF lo > hi THEN r
    ELSE IF lo = hi THEN parse_line(r.val, lines[lo])
    ELSE LET mid == (lo + hi) \div 2
         IN  parse_lines(parse_lines(r, lines, lo, mid), lines, mid + 1, hi)

\* CueSheet::parse on a whole text.
parse(lines) ==
    LET r == parse_lines(Ok(PState(CueSheet_new, None, None)), lines, 1, Len(lines))
    IN  IF r.ok THEN parse_end(r.val) ELSE r

\* run_combine_mode: after combine, the new CUE file is written.
WriteCue ==
    /\ pc = "combined"
    /\ mode = "combine"
    /\ output_cue' = write_cue(cue_sheet)
    /\ pc' = "written"
    /\ UNCHANGED <<trimmed, combined_bin, directives, calc, cue_text, nlines,
                   cue_sheet, current_file, current_track, declared, mode,
                   file_idx, total_bytes, rfile, rtrack, accumulated_sectors,
                   gap_adjustment, bin_size, header, err>>

\* The gap flags validate_gap_flags lets through.
GapFlags == {<<FALSE, FALSE>>, <<TRUE, FALSE>>, <<FALSE, TRUE>>}

\* VcdConverter::new and convert_to_vcd on the BIN of `size` bytes.
Convert(size) ==
    \E flags \in GapFlags :
        LET gap == VcdConverter_new(flags[1], flags[2])
            h == create_vcd_header(size, cue_sheet, gap)
        IN  /\ gap_adjustment' = gap
            /\ bin_size' = size
            /\ IF h.panicked
               THEN /\ pc' = "panicked"
                    /\ err' = "index out of bounds"
                    /\ UNCHANGED header
               ELSE /\ pc' = "converted"
                    /\ header' = h
                    /\ UNCHANGED err

\* run_auto_mode: step 2, on the combined BIN; after convert_to_vcd has
\* returned Ok, `let _ = std::fs::remove_file(&combined_bin)` removes it.
ConvertCombined ==
    /\ pc = "combined"
    /\ mode = "auto"
    /\ Convert(total_bytes)
    /\ combined_bin' = IF pc' = "converted" THEN FALSE ELSE combined_bin
    /\ UNCHANGED <<trimmed, output_cue, directives, calc, cue_text, nlines, cue_sheet, current_file, current_track,
                   declared, mode, file_idx, total_bytes, rfile, rtrack,
                   accumulated_sectors>>

\* run_auto_mode: step 2, where convert_to_vcd returns Err (the metadata of
\* the combined BIN, File::create, write_all, read or flush has failed):
\* `converter.convert_to_vcd(..)?` returns the error to main.
ConvertCombinedFail ==
    /\ pc = "combined"
    /\ mode = "auto"
    /\ \E flags \in GapFlags :
          gap_adjustment' = VcdConverter_new(flags[1], flags[2])
    /\ Fail("I/O error")
    /\ UNCHANGED <<trimmed, combined_bin, output_cue, directives, calc, cue_text,
                   nlines, cue_sheet, current_file, current_track, declared, mode,
                   file_idx, total_bytes, rfile, rtrack, accumulated_sectors,
                   bin_size, header>>

\* run_convert_mode: convert_to_vcd on the BIN the caller names.
ConvertGiven ==
    /\ pc = "ready"
    /\ mode' = "convert"
    /\ \E size \in BinSizes : Convert(size)
    /\ UNCHANGED <<trimmed, combined_bin, output_cue, directives, calc, cue_text, nlines, cue_sheet, current_file, current_track,
                   declared, file_idx, total_bytes, rfile, rtrack,
                   accumulated_sectors>>

-----------------------------------------------------------------------------
(* Pregap recalculation *)

\* The positions from_sectors tells apart: minutes is a u8.
MsfRange == 256 * 60 * 75

\* recalculate_msf_for_combined has returned.
Recalculated ==
    /\ pc \in {"combined", "converted"}
    /\ mode = "auto"
    /\ Len(Files) > 1

\* recalculate_msf_for_combined is about to rewrite the track it has reached.
AtTrack ==
    /\ pc = "recalc"
    /\ rfile <= Len(Files)
    /\ rtrack <= Len(Files[rfile].tracks)

ReachedDeclared == declared.files[rfile].tracks[rtrack]
ReachedAfter == cue_sheet'.files[rfile].tracks[rtrack]

\* The track reached is not track 1 and the CUE declared an INDEX 00 for it.
AtDeclaredPregap ==
    /\ AtTrack
    /\ ReachedDeclared.number # 1
    /\ ReachedDeclared.index00_msf # None

\* The track reached is not track 1 and the CUE declared no INDEX 00 for it.
AtNoPregap ==
    /\ AtTrack
    /\ ReachedDeclared.number # 1
    /\ ReachedDeclared.index00_msf = None

DoublyAdjusted ==
    /\ ReachedAfter.index00_msf # None
    /\ to_sectors(ReachedAfter.index00_msf[1]) = accumulated_sectors + 150 + 150
    /\ to_sectors(ReachedAfter.index01_msf)
          = to_sectors(ReachedAfter.index00_msf[1]) + 150

\* C1 as stated: every track other than track 1 with a declared INDEX 00 is
\* rewritten to index00.lba = accumulated_sectors + 150 + 150 and
\* index01.lba = index00.lba + 150, accumulated_sectors being the value held
\* when the track is reached.
C1_AsStated == [][AtDeclaredPregap => DoublyAdjusted]_vars

\* C1 amended: the same, for the tracks whose new INDEX 01 is below the
\* 256 minutes an Msf can hold (accumulated_sectors + 450 < 1,152,000).
C1_DeclaredPregap ==
    [][(AtDeclaredPregap /\ accumulated_sectors + 450 < MsfRange)
          => DoublyAdjusted]_vars

\* A track 2 with a declared INDEX 00, after a first file of 5,000 sectors,
\* stands at 5300 and 5450.
C1_Witness ==
    /\ Recalculated
    /\ Len(Files[2].tracks) >= 1
    /\ declared.files[2].tracks[1].number = 2
    /\ declared.files[2].tracks[1].index00_msf # None
    /\ Files[2].tracks[1].index00_msf = Some(Msf_new(1, 10, 50))
    /\ Files[2].tracks[1].index01_msf = Msf_new(1, 12, 50)
    /\ to_sectors(Files[2].tracks[1].index01_msf) = 5450

\* C2: every track other than track 1 with no declared INDEX 00 is rewritten
\* to index00 = index01 = from_lba(accumulated_sectors + 150), and this is the
\* position accumulated_sectors + 150 while that is below 256 minutes.
C2_NoPregap ==
    [][AtNoPregap =>
         /\ ReachedAfter.index00_msf = Some(ReachedAfter.index01_msf)
         /\ ReachedAfter.index01_msf = from_sectors(accumulated_sectors + 150)
         /\ accumulated_sectors + 150 < MsfRange
               => to_sectors(ReachedAfter.index01_msf) = accumulated_sectors + 150
      ]_vars

\* A track 2 with no declared INDEX 00, after a first file of 5,000 sectors,
\* stands at from_lba(5150) = 01:08:50 with both indices.
C2_Witness ==
    /\ Recalculated
    /\ Len(Files[2].tracks) >= 1
    /\ declared.files[2].tracks[1].number = 2
    /\ declared.files[2].tracks[1].index00_msf = None
    /\ Files[2].tracks[1].index00_msf = Some(Msf_new(1, 8, 50))
    /\ Files[2].tracks[1].index01_msf = Msf_new(1, 8, 50)

\* The pair recalculate_msf_for_combined forces on track 1.
ForcedPair(track) ==
    /\ track.index00_msf = Some(Msf_new(0, 0, 0))
    /\ track.index01_msf = Msf_new(0, 2, 0)

\* C3 as stated: after the recalculation the first track in disc order,
\* whatever its declared number, holds 00:00:00 / 00:02:00, and no other
\* track does.
C3_AsStated ==
    Recalculated =>
        LET tracks == AllTracks(Files)
        IN  /\ tracks # <<>>
            /\ ForcedPair(tracks[1])
            /\ \A i \in 2..Len(tracks) : ~ForcedPair(tracks[i])

\* C3 amended: after the recalculation every track whose declared number is
\* 1, wherever it stands, holds 00:00:00 / 00:02:00; and while the sectors
\* accumulated stay below 256 minutes (accumulated_sectors + 450 < 1,152,000)
\* no track with another number does, the first track in disc order included.
C3_TrackOne ==
    Recalculated =>
        LET tracks == AllTracks(Files)
        IN  \A i \in 1..Len(tracks) :
               /\ tracks[i].number = 1 => ForcedPair(tracks[i])
               /\ (tracks[i].number # 1 /\ accumulated_sectors + 450 < MsfRange)
                     => ~ForcedPair(tracks[i])

\* A recalculated sheet whose first track is not numbered 1 and does not hold
\* the pair, and whose second file starts with a track 1 that does.
C3_Witness ==
    /\ Recalculated
    /\ Len(Files[1].tracks) >= 1 /\ Len(Files[2].tracks) >= 1
    /\ Files[1].tracks[1].number = 2
    /\ ~ForcedPair(Files[1].tracks[1])
    /\ Files[2].tracks[1].number = 1
    /\ ForcedPair(Files[2].tracks[1])

-----------------------------------------------------------------------------
(* The VCD header *)

\* create_vcd_header has returned the header.
HeaderMade == pc = "converted"

\* floor(bin_size / 2352)
TotalSectors == bin_size \div 2352

\* The tracks of the sheet the header was encoded from, in disc order.
DiscTracks == AllTracks(Files)

\* The k-th byte (k from 0) of x written as a little-endian integer.
LeByte(x, k) ==
    CASE k = 0 -> x % 256
      [] k = 1 -> (x \div 256) % 256
      [] k = 2 -> (x \div 65536) % 256
      [] k = 3 -> (x \div 16777216) % 256

\* C4: the header holds total_sectors = floor(bin_size / 2352) as a 4-byte
\* little-endian integer at 1032..1035 and again at 1036..1039, whatever the
\* number of tracks.
C4_SectorTotals ==
    HeaderMade =>
        \A k \in 0..3 :
            /\ byte_at(header, 1032 + k) = LeByte(TotalSectors, k)
            /\ byte_at(header, 1036 + k) = LeByte(TotalSectors, k)

\* The header of 101 tracks and 1,000 sectors: the record of the 101st track
\* runs from 1030 to 1039, and both totals read E8 03 00 00.
C4_Witness ==
    /\ HeaderMade
    /\ Len(DiscTracks) = 101
    /\ bin_size = 2352000
    /\ byte_at(header, 1030) = 1
    /\ <<byte_at(header, 1032), byte_at(header, 1033)>> = <<232, 3>>
    /\ <<byte_at(header, 1036), byte_at(header, 1037)>> = <<232, 3>>

\* A byte read as two decimal digits: 10 * high nibble + low nibble.
BcdValue(b) == (b \div 16) * 10 + (b % 16)

\* Both nibbles of a byte are decimal digits.
IsBcd(b) == (b \div 16) <= 9 /\ (b % 16) <= 9

\* The lead-out position the bytes 27..29 decode to.
LeadOutLba ==
    (BcdValue(byte_at(header, 27)) * 60 + BcdValue(byte_at(header, 28))) * 75
        + BcdValue(byte_at(header, 29))

\* C5 as stated: byte 22 is 0xA2 and the bytes 27..29 decode to
\* total_sectors + 150, for every data size.
C5_AsStated ==
    HeaderMade =>
        /\ byte_at(header, 22) = 162
        /\ LeadOutLba = TotalSectors + 150

\* C5 amended: byte 22 is 0xA2 and the bytes 27..29 are
\* to_bcd(from_lba(total_sectors + 150)) for every data size; they decode to
\* total_sectors + 150 while the lead-out is below 160 minutes
\* (total_sectors + 150 < 720,000) and are decimal digits while it is below
\* 100 minutes (total_sectors + 150 < 450,000).
C5_LeadOut ==
    HeaderMade =>
        /\ byte_at(header, 22) = 162
        /\ <<byte_at(header, 27), byte_at(header, 28), byte_at(header, 29)>>
              = to_bcd(from_sectors(TotalSectors + 150))
        /\ TotalSectors + 150 < 160 * 60 * 75 => LeadOutLba = TotalSectors + 150
        /\ TotalSectors + 150 < 100 * 60 * 75 =>
              \A k \in 27..29 : IsBcd(byte_at(header, k))

\* The header of 1,000 sectors: the lead-out is from_lba(1150) = 00:15:25.
C5_Witness ==
    /\ HeaderMade
    /\ bin_size = 2352000
    /\ byte_at(header, 22) = 162
    /\ <<byte_at(header, 27), byte_at(header, 28), byte_at(header, 29)>>
          = <<0, 21, 37>>

\* An index of a track as write_track_entries packs it.
Packed(track, msf) ==
    to_bcd(IF track.number > 1 /\ gap_adjustment # 0
           THEN add_seconds(msf, gap_adjustment) ELSE msf)

\* The three bytes of a header from an offset on.
Bytes3(h, offset) ==
    <<byte_at(h, offset), byte_at(h, offset + 1), byte_at(h, offset + 2)>>

\* The record of the i-th track (i from 0) is at 30 + 10 * i and holds what
\* the track table holds of the track.
RecordHolds(i) ==
    LET track == DiscTracks[i + 1]
        at == 30 + 10 * i
    IN  /\ byte_at(header, at) = (IF track.track_type = "AUDIO" THEN 1 ELSE 65)
        /\ byte_at(header, at + 1) = 0
        /\ byte_at(header, at + 2) = (track.number \div 10) * 16 + (track.number % 10)
        /\ Bytes3(header, at + 3) =
              Packed(track, IF track.index00_msf = None THEN track.index01_msf
                            ELSE track.index00_msf[1])
        /\ byte_at(header, at + 6) = 0
        /\ Bytes3(header, at + 7) = Packed(track, track.index01_msf)

\* The record of the i-th track ends before the signature at 1024.
RecordBelowSignature(i) == 30 + 10 * i + 9 < 1024

\* C6 as stated: for every track count, the record of the i-th track holds
\* the track, and no record overlaps the signature or the sector totals.
C6_AsStated ==
    HeaderMade =>
        \A i \in 0..(Len(DiscTracks) - 1) :
            RecordHolds(i) /\ RecordBelowSignature(i)

\* C6 amended: the records of the first 99 tracks (i <= 98) hold their
\* tracks and end before the signature; a sheet of at most 99 tracks has no
\* other record.
C6_TrackTable ==
    HeaderMade =>
        /\ \A i \in 0..(Len(DiscTracks) - 1) :
              i <= 98 => RecordHolds(i) /\ RecordBelowSignature(i)
        /\ Len(DiscTracks) <= 99 =>
              \A i \in 0..(Len(DiscTracks) - 1) : i <= 98

\* The header of 100 tracks: the 99th record (at 1010) holds its audio track
\* 02, and the 100th (at 1020) has lost its byte 7 to the signature's 0x20.
C6_Witness ==
    /\ HeaderMade
    /\ Len(DiscTracks) = 100
    /\ <<byte_at(header, 1010), byte_at(header, 1012)>> = <<1, 2>>
    /\ <<byte_at(header, 1020), byte_at(header, 1022)>> = <<1, 2>>
    /\ byte_at(header, 1027) = 32

\* The ten bytes of the i-th record of a header.
Record(h, i) == [k \in 0..9 |-> byte_at(h, 30 + 10 * i + k)]

\* The header create_vcd_header makes of the same sheet and size under gap g.
HeaderUnder(g) == create_vcd_header(bin_size, cue_sheet, g)

\* The position the three bytes from an offset on decode to.
LbaAt(h, offset) ==
    (BcdValue(byte_at(h, offset)) * 60 + BcdValue(byte_at(h, offset + 1))) * 75
        + BcdValue(byte_at(h, offset + 2))

\* An index moved by gap seconds, kept at 00:00:00 where that would be
\* before the start of the disc.
Shifted(msf, gap) ==
    IF to_sectors(msf) + 75 * gap < 0 THEN Msf_new(0, 0, 0)
    ELSE from_sectors(to_sectors(msf) + 75 * gap)

\* C7 as stated: the record of a track numbered 1 is the same under the gap
\* adjustments +2, -2 and 0, and a track numbered above 1 has both indices
\* moved by the adjustment: each is packed 75 * gap sectors from where the
\* sheet has it.
C7_AsStated ==
    HeaderMade =>
        \A i \in 0..(Len(DiscTracks) - 1) :
            LET track == DiscTracks[i + 1]
                at == 30 + 10 * i
                index00 == IF track.index00_msf = None THEN track.index01_msf
                           ELSE track.index00_msf[1]
            IN  /\ track.number <= 1 =>
                      \A g \in {-2, 0, 2} : Record(HeaderUnder(g), i) = Record(header, i)
                /\ (track.number > 1 /\ RecordBelowSignature(i)) =>
                      /\ LbaAt(header, at + 3) = to_sectors(index00) + 75 * gap_adjustment
                      /\ LbaAt(header, at + 7)
                            = to_sectors(track.index01_msf) + 75 * gap_adjustment

\* C7 amended: the record of a track numbered 1 (or less) is the same under
\* the gap adjustments +2, -2 and 0; the record of a track numbered above 1
\* packs both indices moved by the same gap, each kept at 00:00:00 where the
\* move would take it below zero (an index less than 2 seconds into the
\* disc under gap -2), so that such a track's indices are not moved by the
\* same amount.  (The records below the signature, those C6 holds of.)
C7_GapAdjustment ==
    HeaderMade =>
        \A i \in 0..(Len(DiscTracks) - 1) :
            LET track == DiscTracks[i + 1]
                at == 30 + 10 * i
                index00 == IF track.index00_msf = None THEN track.index01_msf
                           ELSE track.index00_msf[1]
            IN  /\ track.number <= 1 =>
                      \A g \in {-2, 0, 2} : Record(HeaderUnder(g), i) = Record(header, i)
                /\ (track.number > 1 /\ RecordBelowSignature(i)) =>
                      /\ Bytes3(header, at + 3)
                            = to_bcd(Shifted(index00, gap_adjustment))
                      /\ Bytes3(header, at + 7)
                            = to_bcd(Shifted(track.index01_msf, gap_adjustment))

\* The header of a combined image under gap +2: track 1 stands at
\* 00:00:00 / 00:02:00 untouched, and a track 2 at 01:08:50 (5,000 sectors
\* and the pregap) is packed as 01:10:50 twice.
C7_Witness ==
    /\ HeaderMade
    /\ gap_adjustment = 2
    /\ Len(DiscTracks) = 2
    /\ DiscTracks[1].number = 1
    /\ DiscTracks[1].index01_msf = Msf_new(0, 2, 0)
    /\ Bytes3(header, 33) = <<0, 0, 0>>
    /\ Bytes3(header, 37) = <<0, 2, 0>>
    /\ DiscTracks[2].number = 2
    /\ DiscTracks[2].index01_msf = Msf_new(1, 8, 50)
    /\ Bytes3(header, 43) = <<1, 16, 80>>
    /\ Bytes3(header, 47) = <<1, 16, 80>>

\* C8 as stated: bytes 10 and 20 are 0x01 exactly when the last track of the
\* disc in disc order is Audio and 0x41 otherwise, byte 12 is 0xA1, and
\* byte 17 packs the total track count.
C8_AsStated ==
    HeaderMade =>
        LET n == Len(DiscTracks)
            content == IF n > 0 /\ DiscTracks[n].track_type = "AUDIO"
                       THEN 1 ELSE 65
        IN  /\ byte_at(header, 10) = content
            /\ byte_at(header, 20) = content
            /\ byte_at(header, 12) = 161
            /\ byte_at(header, 17) = ((n \div 10) * 16 + (n % 10)) % 256

\* The offsets of the fields of a header of n tracks.
HeaderFields(n) ==
    {0, 2, 7, 8} \cup {10, 12, 17, 20} \cup {22, 27, 28, 29}
    \cup 30..(30 + 10 * n - 1)
    \cup 1024..1027
    \cup 1032..1039

\* C9: the header is 1,048,576 bytes long, the bytes of descriptor A0 and of
\* the signature are as listed, and every byte outside the listed fields is
\* zero.  (A byte that was never written is the zero the buffer was created
\* with, so the bytes written are the ones to look at.)
C9_OtherBytesZero ==
    HeaderMade =>
        /\ header.len = 1048576
        /\ <<byte_at(header, 0), byte_at(header, 2), byte_at(header, 7),
             byte_at(header, 8)>> = <<65, 160, 1, 32>>
        /\ <<byte_at(header, 1024), byte_at(header, 1025), byte_at(header, 1026),
             byte_at(header, 1027)>> = <<107, 72, 110, 32>>
        /\ \A offset \in DOMAIN header.bytes :
              offset \notin HeaderFields(Len(DiscTracks)) => header.bytes[offset] = 0

\* A header of two tracks: the table ends at 49, and the bytes between the
\* descriptors, after the table and around the signature are zero.
C9_Witness ==
    /\ HeaderMade
    /\ Len(DiscTracks) = 2
    /\ byte_at(header, 40) # 0
    /\ \A offset \in {1, 9, 21, 26, 50, 1023, 1028, 1031, 1040} :
          byte_at(header, offset) = 0

-----------------------------------------------------------------------------
(* CueSheet::parse *)

\* parse has just returned the sheet.
ParseReturned == pc = "parsed"

\* C10 as stated: a sheet parse returns has a file, and the first track
\* found walking its files in order has index01.lba = 0.
C10_AsStated ==
    ParseReturned =>
        /\ Len(Files) >= 1
        /\ AllTracks(Files) # <<>> =>
              to_sectors(AllTracks(Files)[1].index01_msf) = 0

\* The TRACK lines of the text in the order read, file by file.
RECURSIVE Flatten(_)
Flatten(seqs) == IF seqs = <<>> THEN <<>> ELSE seqs[1] \o Flatten(Tail(seqs))

\* What a TRACK line declares of a track of the sheet: number and type.
Identity(track) == [number |-> track.number, track_type |-> track.track_type]

\* C11 as stated: no text in which a TRACK line is read while no FILE is
\* open is parsed successfully.
C11_AsStated == ParseReturned => ~directives.orphan

\* C12 as stated: every file of a sheet parse returns has a track.
C12_AsStated ==
    ParseReturned => \A i \in 1..Len(Files) : Files[i].tracks # <<>>

\* C13 as stated: a sheet parse returns has an INDEX 01 line for its first
\* track.  (Of the texts whose TRACK lines all follow a FILE line.)
C13_AsStated ==
    (ParseReturned /\ ~directives.orphan /\ Flatten(directives.files) # <<>>) =>
        Flatten(directives.files)[1].index01

\* C20 as stated: the files of a sheet parse returns are the FILE lines in
\* input order, each with exactly the TRACK lines read while it was the open
\* FILE, in input order, and no TRACK line is left out.
C20_AsStated ==
    ParseReturned =>
        /\ ~directives.orphan
        /\ Len(Files) = Len(directives.files)
        /\ \A i \in 1..Len(Files) :
              /\ Len(Files[i].tracks) = Len(directives.files[i])
              /\ \A j \in 1..Len(Files[i].tracks) :
                    Identity(Files[i].tracks[j]) = Identity(directives.files[i][j])

\* parse's loop handles an INDEX line whose MSF is well formed while a
\* track is open.
IndexStep ==
    /\ pc = "parse"
    /\ current_track # None
    /\ trimmed' # None
    /\ trimmed'[1].kind = "INDEX"
    /\ Msf_from_str(trimmed'[1].msf).ok

\* What the INDEX line of that step does to the parser state.
IndexEffect ==
    LET n == trimmed'[1].num
        msf == Msf_from_str(trimmed'[1].msf).val
        track == current_track[1]
    IN  /\ pc' = "parse"
        /\ cue_sheet' = cue_sheet
        /\ current_file' = current_file
        /\ n = 0 => /\ current_track' = Some([track EXCEPT !.index00_msf = Some(msf)])
                    /\ current_track'[1].index01_msf = track.index01_msf
        /\ n = 1 => /\ current_track' = Some([track EXCEPT !.index01_msf = msf])
                    /\ current_track'[1].index00_msf = track.index00_msf
        /\ n \notin {0, 1} => current_track' = current_track

\* A track that was given no INDEX 00 line has no index00, and one that was
\* given no INDEX 01 line has index01 = 00:00:00: the open track while parse
\* reads, and every track of the sheet parse returns (of the texts whose
\* TRACK lines all follow a FILE line, where the tracks of the sheet are the
\* TRACK lines read).
IndexDefaults ==
    /\ (pc = "parse" /\ current_track # None) =>
          /\ directives.since_track # <<>>
          /\ ~directives.since_track[1].index00 =>
                current_track[1].index00_msf = None
          /\ ~directives.since_track[1].index01 =>
                current_track[1].index01_msf = Msf_new(0, 0, 0)
    /\ (ParseReturned /\ ~directives.orphan) =>
          \A i \in 1..Len(Files) : \A j \in 1..Len(Files[i].tracks) :
             /\ ~directives.files[i][j].index00 =>
                   Files[i].tracks[j].index00_msf = None
             /\ ~directives.files[i][j].index01 =>
                   Files[i].tracks[j].index01_msf = Msf_new(0, 0, 0)

\* C21: an INDEX line with a well-formed MSF handled while a track is open
\* changes only that track: INDEX 00 sets index00 and leaves index01, INDEX
\* 01 sets index01 and leaves index00, any other index number leaves the
\* track and the rest of the parser state as they were and does not fail;
\* and a track that never receives INDEX 00 keeps index00 absent, one that
\* never receives INDEX 01 keeps index01 = 00:00:00.
C21_IndexFrame == [][(IndexStep => IndexEffect) /\ IndexDefaults']_vars

\* INDEX 00 00:00:00 has just been applied to a track whose INDEX 01 was
\* 00:02:00: index00 is set, index01 is still 00:02:00.
C21_Witness ==
    /\ pc = "parse"
    /\ trimmed = Some(IndexLine(0, <<0, 0, 0>>))
    /\ current_track # None
    /\ directives.since_track = <<[index00 |-> TRUE, index01 |-> TRUE]>>
    /\ current_track[1].index00_msf = Some(Msf_new(0, 0, 0))
    /\ current_track[1].index01_msf = Msf_new(0, 2, 0)

-----------------------------------------------------------------------------
(* BinCombiner::combine *)

\* combine has returned Ok on a sheet of one FILE holding one TRACK.
SingleCombined ==
    /\ pc \in {"combined", "converted"}
    /\ mode = "auto"
    /\ Len(declared.files) = 1
    /\ Len(declared.files[1].tracks) = 1

\* C18: after combine succeeds on a sheet of one FILE holding one TRACK, the
\* track has index00 = 00:00:00 and index01 = 00:02:00 whatever the CUE
\* declared, and total_bytes is the size of the BIN.
C18_SingleFile ==
    SingleCombined =>
        /\ Len(Files) = 1 /\ Len(Files[1].tracks) = 1
        /\ Files[1].tracks[1].index00_msf = Some(Msf_new(0, 0, 0))
        /\ Files[1].tracks[1].index01_msf = Msf_new(0, 2, 0)
        /\ to_sectors(Files[1].tracks[1].index01_msf) = 150
        /\ total_bytes = Files[1].file_size

\* The sheet whose one track declares INDEX 00 00:01:00 and INDEX 01
\* 00:00:00, combined from a BIN of 11,761,176 bytes.
C18_Witness ==
    /\ SingleCombined
    /\ declared.files[1].tracks[1].index00_msf = Some(Msf_new(0, 1, 0))
    /\ declared.files[1].tracks[1].index01_msf = Msf_new(0, 0, 0)
    /\ Files[1].tracks[1].index00_msf = Some(Msf_new(0, 0, 0))
    /\ Files[1].tracks[1].index01_msf = Msf_new(0, 2, 0)
    /\ total_bytes = 11761176

\* The sectors of the files before the i-th, each file counted once:
\* floor(file_size / sector size of its first track).
RECURSIVE SectorsBefore(_)
SectorsBefore(i) ==
    IF i <= 1 THEN 0
    ELSE SectorsBefore(i - 1)
            + (Files[i - 1].file_size
                  \div sector_size(Files[i - 1].tracks[1].track_type))

\* C19 as stated: whenever the walk of recalculate_msf_for_combined reaches
\* the first track of a file, accumulated_sectors is the sum of the sectors
\* of the preceding files, each counted once.
C19_AsStated ==
    (AtTrack /\ rtrack = 1) => accumulated_sectors = SectorsBefore(rfile)

\* combine has returned Ok.
CombineReturned ==
    /\ pc \in {"combined", "converted", "written"}
    /\ mode \in CombineModes

\* The bytes of the files of the sheet together.
RECURSIVE SizeOfFiles(_)
SizeOfFiles(n) == IF n = 0 THEN 0 ELSE SizeOfFiles(n - 1) + Files[n].file_size

\* The indices of the tracks of a sheet, file by file.
Indices(sheet) ==
    [i \in 1..Len(sheet.files) |->
        [j \in 1..Len(sheet.files[i].tracks) |->
            <<sheet.files[i].tracks[j].index00_msf,
              sheet.files[i].tracks[j].index01_msf>>]]

SingleFileTracks ==
    /\ mode \in CombineModes
    /\ Len(Files) = 1
    /\ Len(Files[1].tracks) >= 2

\* The byte offset at which the idx-th track of the one file starts:
\* index01.lba * its sector size.
TrackStart(idx) ==
    to_sectors(Files[1].tracks[idx].index01_msf)
        * sector_size(Files[1].tracks[idx].track_type)

\* The byte offset at which it ends: the start of the next track, or the
\* size of the file for the last track.
TrackEnd(idx) ==
    IF idx < Len(Files[1].tracks) THEN TrackStart(idx + 1)
    ELSE Files[1].file_size

\* A track's declared range starts beyond, or reaches past, the end of the
\* BIN file.
ShortRange ==
    \E idx \in 1..Len(Files[1].tracks) :
        \/ TrackStart(idx) > Files[1].file_size
        \/ TrackEnd(idx) > Files[1].file_size

\* C23 as stated: in single-file multi-track extraction, where a track's
\* declared range starts beyond or reaches past the end of the BIN, combine
\* does not end in an arithmetic fault or abort, and total_bytes is at most
\* the size of the file.
C23_AsStated ==
    (SingleFileTracks /\ ShortRange) =>
        /\ pc # "panicked"
        /\ total_bytes <= Files[1].file_size

\* C25 as stated: for every sheet parse accepted with one FILE and two or
\* more TRACKs, each track's end offset is at or after its start offset when
\* process_singlefile_tracks runs, so that `end_bytes - start_bytes` never
\* underflows and combine never ends in that fault.
C25_AsStated ==
    /\ (SingleFileTracks /\ pc = "copy") =>
          \A idx \in 1..Len(Files[1].tracks) : TrackEnd(idx) >= TrackStart(idx)
    /\ err # "attempt to subtract with overflow"

\* A run of auto mode has ended after combine: with the error of
\* convert_to_vcd, or with the VCD written.
AutoEnded ==
    /\ mode = "auto"
    /\ pc \in {"failed", "converted"}

\* C24 as stated: where convert_to_vcd fails after the combined BIN has been
\* created, the run ends with the error and the combined BIN removed, as it
\* is removed after a successful conversion: no run of auto mode ends with
\* the combined BIN still on the disk.
C24_AsStated ==
    /\ (mode = "auto" /\ pc = "failed") => err # ""
    /\ AutoEnded => ~combined_bin

\* The recalculation has walked every track of a multi-file sheet.
RecalculationDone ==
    /\ CombineReturned
    /\ Len(Files) > 1

\* C26 as stated: after recalculate_msf_for_combined on a parsed multi-file
\* sheet whose totals stay below 256 minutes, every track has an index00 at
\* or before its index01, and index01 does not decrease over the tracks in
\* disc order, whatever the track numbers and the tracks per file.
C26_AsStated ==
    (RecalculationDone /\ accumulated_sectors + 450 < MsfRange) =>
        LET tracks == AllTracks(Files)
        IN  /\ \A i \in 1..Len(tracks) :
                  /\ tracks[i].index00_msf # None
                  /\ to_sectors(tracks[i].index00_msf[1])
                        <= to_sectors(tracks[i].index01_msf)
            /\ \A i \in 1..(Len(tracks) - 1) :
                  to_sectors(tracks[i].index01_msf)
                     <= to_sectors(tracks[i + 1].index01_msf)

\* run_combine_mode has written the new CUE file.
CueWritten == pc = "written"

\* C27 as stated: the CUE combine mode writes is accepted by CueSheet::parse
\* and parses back to the tracks of the combined sheet: the same numbers,
\* types, index00 and index01, in the same order, under one FILE.
C27_AsStated ==
    CueWritten =>
        LET r == parse(output_cue)
        IN  /\ r.ok
            /\ Len(r.val.files) = 1
            /\ r.val.files[1].tracks = AllTracks(Files)

-----------------------------------------------------------------------------
(* src/utils.rs: the Msf computations on their own.  An input is drawn,    *)
(* and one of the functions is applied to it.                              *)

\* The positions from_sectors is applied to: every position of the first
\* minute and second, and 00:00:00, 00:00:74, 00:59:00 and 00:59:74 of the
\* minutes 1, 99, 100, 255, 256, 257 and 3727, up to 2^24 - 1.
LbaInputs ==
    0..MaxSmallLba
    \cup {m * 4500 + sec * 75 + f :
             m \in {1, 99, 100, 255, 256, 257, 3727}, sec \in {0, 59}, f \in {0, 74}}
    \cup {16777215}

\* The Msf values the functions are applied to: the fields are u8.
MsfInputs ==
    {Msf_new(m, sec, f) : m \in {0, 1, 12, 99, 100, 160, 255},
                          sec \in {0, 2, 30, 34, 59, 60, 255},
                          f \in {0, 50, 56, 74, 75, 255}}

\* The shifts add_seconds is applied with.
Deltas == (-MaxDelta)..MaxDelta

InitMsf ==
    /\ cue_text = FreeText
    /\ nlines = 0
    /\ pc = "msf"
    /\ cue_sheet = CueSheet_new
    /\ current_file = None
    /\ current_track = None
    /\ declared = CueSheet_new
    /\ directives = no_directives
    /\ trimmed = None
    /\ calc \in {[no_calc EXCEPT !.lba = lba] : lba \in LbaInputs}
                \cup {[no_calc EXCEPT !.msf = Some(m), !.delta = d] :
                         m \in MsfInputs, d \in Deltas}
    /\ mode = ""
    /\ file_idx = 0
    /\ total_bytes = 0
    /\ rfile = 0
    /\ rtrack = 0
    /\ accumulated_sectors = 0
    /\ gap_adjustment = 0
    /\ bin_size = 0
    /\ header = <<>>
    /\ combined_bin = FALSE
    /\ output_cue = <<>>
    /\ err = ""

\* The function op is applied and returns out.
Applied(op, out) ==
    /\ calc' = [calc EXCEPT !.op = op, !.out = Some(out)]
    /\ UNCHANGED <<cue_text, nlines, pc, cue_sheet, current_file, current_track,
                   declared, directives, trimmed, mode, file_idx, total_bytes,
                   rfile, rtrack, accumulated_sectors, gap_adjustment, bin_size,
                   header, combined_bin, output_cue, err>>

\* Msf::from_sectors(lba)
FromSectors ==
    /\ pc = "msf" /\ calc.op = "" /\ calc.msf = None
    /\ Applied("from_sectors", from_sectors(calc.lba))

\* msf.to_sectors()
ToSectors ==
    /\ pc = "msf" /\ calc.op = "" /\ calc.msf # None /\ calc.delta = 0
    /\ Applied("to_sectors", to_sectors(calc.msf[1]))

\* msf.add_seconds(delta)
AddSeconds ==
    /\ pc = "msf" /\ calc.op = "" /\ calc.msf # None
    /\ Applied("add_seconds", add_seconds(calc.msf[1], calc.delta))

\* msf.to_bcd()
ToBcd ==
    /\ pc = "msf" /\ calc.op = "" /\ calc.msf # None /\ calc.delta = 0
    /\ Applied("to_bcd", to_bcd(calc.msf[1]))

NextMsf ==
    \/ FromSectors
    \/ ToSectors
    \/ AddSeconds
    \/ ToBcd

SpecMsf == InitMsf /\ [][NextMsf]_vars

\* C14 as stated: to_sectors(from_sectors(lba)) = lba for every lba below
\* 2^24.
C14_AsStated ==
    (calc.op = "from_sectors" /\ calc.lba < 16777216) =>
        to_sectors(calc.out[1]) = calc.lba

\* C14 amended: to_sectors(from_sectors(lba)) = lba for every lba below
\* 1,152,000 (256 minutes); from there on the minutes are kept mod 256 and
\* the round trip gives lba mod 1,152,000.
C14_RoundTrip ==
    calc.op = "from_sectors" =>
        /\ calc.lba < MsfRange => to_sectors(calc.out[1]) = calc.lba
        /\ to_sectors(calc.out[1]) = calc.lba % MsfRange

\* The last position that survives the round trip: 1,151,999 is 255:59:74.
C14_Witness ==
    /\ calc.op = "from_sectors"
    /\ calc.lba = 1151999
    /\ calc.out = Some(Msf_new(255, 59, 74))
    /\ to_sectors(calc.out[1]) = 1151999

\* C15: for every Msf m with frames < 75 and seconds < 60,
\* to_sectors(m) = (minutes * 60 + seconds) * 75 + frames and
\* from_sectors(to_sectors(m)) = m.
C15_MsfRoundTrip ==
    (calc.op = "to_sectors" /\ calc.msf[1].frames < 75 /\ calc.msf[1].seconds < 60) =>
        LET m == calc.msf[1]
        IN  /\ calc.out[1] = (m.minutes * 60 + m.seconds) * 75 + m.frames
            /\ from_sectors(calc.out[1]) = m

\* 01:30:50 is position 6800, and 6800 is 01:30:50.
C15_Witness ==
    /\ calc.op = "to_sectors"
    /\ calc.msf = Some(Msf_new(1, 30, 50))
    /\ calc.out = Some(6800)
    /\ from_sectors(6800) = Msf_new(1, 30, 50)

\* The position a shift of delta seconds aims at, not below zero.
ShiftTarget(m, delta) ==
    IF to_sectors(m) + 75 * delta < 0 THEN 0 ELSE to_sectors(m) + 75 * delta

C17_Bcd ==
    (/\ calc.op = "to_bcd"
     /\ calc.msf[1].minutes <= 99
     /\ calc.msf[1].seconds <= 99
     /\ calc.msf[1].frames <= 99) =>
        LET m == calc.msf[1]
            fields == <<m.minutes, m.seconds, m.frames>>
            bytes == calc.out[1]
        IN  /\ Len(bytes) = 3
            /\ \A k \in 1..3 :
                  /\ bytes[k] \in 0..255
                  /\ bytes[k] \div 16 = fields[k] \div 10
                  /\ bytes[k] % 16 = fields[k] % 10
                  /\ BcdValue(bytes[k]) = fields[k]

\* 12:34:56 packs to 0x12 0x34 0x56.
C17_Witness ==
    /\ calc.op = "to_bcd"
    /\ calc.msf = Some(Msf_new(12, 34, 56))
    /\ calc.out = Some(<<18, 52, 86>>)

Next ==
    \/ ReadLine
    \/ EndOfText
    \/ LoadFileSizes
    \/ LoadFileSizesFail
    \/ ValidateMode2
    \/ HandleSingleFile
    \/ CombineCreate
    \/ CopyMultiFile
    \/ CopySingleFile
    \/ CombineFlush
    \/ RecalcPanic
    \/ RecalcTrack
    \/ ConvertCombined
    \/ ConvertCombinedFail
    \/ WriteCue
    \/ ConvertGiven

Spec == Init /\ [][Next]_vars

====
